---- MODULE Spec2Model ----
(***************************************************************************)
(* Model of the video search / transcription / knowledge-base workflow:    *)
(*   knowledge_base.py  KnowledgeBase (save, list, load, delete)           *)
(*   tools.py           VideoSearchTool, TranscriptionTool                 *)
(*   agents.py          VideoSearchAgent, TranscriptionAgent,              *)
(*                      OrchestratorAgent.process_query                    *)
(*                                                                         *)
(* A Python str is a sequence of one-character strings; the other Python   *)
(* values are introduced below.                                            *)
(***************************************************************************)
EXTENDS Integers, Sequences, FiniteSets, TLC

----------------------------------------------------------------------------
(* Python str primitives *)

MinOf(S) == CHOOSE x \in S : \A y \in S : x <= y

MaxOf(S) == 0 - MinOf({0 - x : x \in S})

\* str.isspace() for the characters of the model's alphabet
Whitespace == {" ", "\t", "\n", "\r", "\f"}

UpperCase ==
    << "A", "B", "C", "D", "E", "F", "G", "H", "I", "J", "K", "L", "M",
       "N", "O", "P", "Q", "R", "S", "T", "U", "V", "W", "X", "Y", "Z" >>

LowerCase ==
    << "a", "b", "c", "d", "e", "f", "g", "h", "i", "j", "k", "l", "m",
       "n", "o", "p", "q", "r", "s", "t", "u", "v", "w", "x", "y", "z" >>

Digits == << "0", "1", "2", "3", "4", "5", "6", "7", "8", "9" >>

Range(s) == {s[i] : i \in DOMAIN s}

UpperSet == Range(UpperCase)

AlnumSet == Range(UpperCase) \cup Range(LowerCase) \cup Range(Digits)

\* c.lower()
LowerChar(c) ==
    IF c \in UpperSet
    THEN LowerCase[CHOOSE i \in DOMAIN UpperCase : UpperCase[i] = c]
    ELSE c

\* s.lower()
Lower(s) == [i \in DOMAIN s |-> LowerChar(s[i])] \o << >>

\* c.isalnum()
IsAlnum(c) == c \in AlnumSet

\* s[a:b] for 0 <= a, 0 <= b (Python clamps both to len(s))
Slice(s, a, b) ==
    LET hi == IF b < Len(s) THEN b ELSE Len(s)
    IN  IF a >= hi THEN << >> ELSE SubSeq(s, a + 1, hi)

\* s.find(m): the 0-based offset of the first occurrence of m, or -1
Find(s, m) ==
    LET at == {i \in 0 .. (Len(s) - Len(m)) :
                  \A j \in DOMAIN m : s[i + j] = m[j]}
    IN  IF Len(m) > Len(s) \/ at = {} THEN -1 ELSE MinOf(at)

\* s.lstrip(chars)
LStripChars(s, chars) ==
    LET keep == {i \in DOMAIN s : s[i] \notin chars}
    IN  IF keep = {} THEN << >> ELSE SubSeq(s, MinOf(keep), Len(s))

\* s.rstrip()
RStrip(s) ==
    LET keep == {i \in DOMAIN s : s[i] \notin Whitespace}
    IN  IF keep = {} THEN << >> ELSE SubSeq(s, 1, MaxOf(keep))

\* s.strip()
Strip(s) == RStrip(LStripChars(s, Whitespace))

\* s.split(sep)[0]
SplitHead(s, sep) ==
    LET idx == Find(s, sep)
    IN  IF idx = -1 THEN s ELSE Slice(s, 0, idx)

\* s.rsplit(' ', 1)[0]
RSplitHead(s) ==
    LET sp == {i \in DOMAIN s : s[i] = " "}
    IN  IF sp = {} THEN s ELSE SubSeq(s, 1, MaxOf(sp) - 1)

\* ' '.join(parts)
RECURSIVE JoinSpace(_)
JoinSpace(parts) ==
    IF parts = << >> THEN << >>
    ELSE IF Len(parts) = 1 THEN parts[1]
    ELSE parts[1] \o << " " >> \o JoinSpace(Tail(parts))

\* re.split(r'(?<=[.!?])\s+', s): a separator is a run of whitespace that
\* starts right after '.', '!' or '?'
SentenceEnd == {".", "!", "?"}

RECURSIVE ReSplitSentences(_)
ReSplitSentences(s) ==
    LET starts == {i \in 2 .. Len(s) :
                      s[i] \in Whitespace /\ s[i - 1] \in SentenceEnd}
    IN  IF starts = {} THEN << s >>
        ELSE LET b    == MinOf(starts)
                 rest == LStripChars(SubSeq(s, b, Len(s)), Whitespace)
             IN  << SubSeq(s, 1, b - 1) >> \o ReSplitSentences(rest)

----------------------------------------------------------------------------
(* agents.py: TranscriptionAgent._extract_main_content *)

SnippetWindow == 800

MaxCandidate == 400

MinSentences == 3

Ellipsis == << ".", ".", "." >>

markers ==
    << << "m","a","i","n"," ","t","a","k","e","a","w","a","y","s" >>,
       << "m","a","i","n"," ","t","a","k","e","a","w","a","y","s"," ",
          "a","n","d"," ","i","n","s","i","g","h","t","s" >>,
       << "m","a","i","n"," ","t","a","k","e","a","w","a","y","s",":" >>,
       << "k","e","y"," ","t","a","k","e","a","w","a","y","s" >>,
       << "t","a","k","e","a","w","a","y","s" >>,
       << "m","a","i","n"," ","t","a","k","e","a","w","a","y","s"," ",
          "a","n","d"," ","i","n","s","i","g","h","t","s",":" >> >>

\* candidate[:400].rsplit(' ', 1)[0] + '...' when len(candidate) > 400
Truncate(candidate) ==
    IF Len(candidate) > MaxCandidate
    THEN RSplitHead(Slice(candidate, 0, MaxCandidate)) \o Ellipsis
    ELSE candidate

\* the marker loop's body with the snippet cut from the marker's first
\* character instead of from the character after the marker
MarkerCandidate_FromMarker(transcription, m, idx) ==
    LET snippet  == Strip(Slice(transcription, idx, idx + SnippetWindow))
        stripped == LStripChars(snippet, {":", "\n", "\r", " "})
        part0    == SplitHead(stripped, << "\n", "\n" >>)
    IN  Truncate(Strip(part0))

\* the body of the marker loop for a marker found at offset idx
MarkerCandidate(transcription, m, idx) ==
    LET start    == idx + Len(m)
        snippet  == Strip(Slice(transcription, start, start + SnippetWindow))
        stripped == LStripChars(snippet, {":", "\n", "\r", " "})
        part0    == SplitHead(stripped, << "\n", "\n" >>)
    IN  Truncate(Strip(part0))

\* the fallback joining every sentence instead of the first three
FallbackCandidate_AllSentences(transcription) ==
    LET sentences == ReSplitSentences(Strip(transcription))
        candidate == IF Len(sentences) >= MinSentences
                     THEN Strip(JoinSpace(sentences))
                     ELSE Slice(Strip(transcription), 0, MaxCandidate)
    IN  Truncate(candidate)

\* the fallback below the marker loop
FallbackCandidate(transcription) ==
    LET sentences == ReSplitSentences(Strip(transcription))
        candidate == IF Len(sentences) >= MinSentences
                     THEN Strip(JoinSpace(SubSeq(sentences, 1, MinSentences)))
                     ELSE Slice(Strip(transcription), 0, MaxCandidate)
    IN  Truncate(candidate)

extract_main_content(transcription) ==
    IF transcription = << >> THEN << >>
    ELSE LET lowered == Lower(transcription)
             hits    == {k \in DOMAIN markers : Find(lowered, markers[k]) # -1}
         IN  IF hits # {}
             THEN LET k == MinOf(hits)
                  IN  MarkerCandidate(transcription, markers[k],
                                      Find(lowered, markers[k]))
             ELSE FallbackCandidate(transcription)

----------------------------------------------------------------------------
(* Python values.  A value is the pair << type, payload >>: a str carries  *)
(* its characters, a list a sequence of values, a dict a function from its *)
(* keys to values.  A message that is only passed along, never inspected,  *)
(* is a str of one atom.                                                   *)

PyNone == << "NoneType", << >> >>

PyStr(s) == << "str", s >>

PyBool(b) == << "bool", b >>

PyInt(n) == << "int", n >>

PyList(s) == << "list", s >>

PyDict(d) == << "dict", d >>

EmptyDict == PyDict([k \in {} |-> PyNone])

PyType(x) == x[1]

PyVal(x) == x[2]

\* bool(x)
Truthy(x) ==
    CASE PyType(x) = "NoneType" -> FALSE
      [] PyType(x) = "bool"     -> PyVal(x)
      [] PyType(x) = "int"      -> PyVal(x) # 0
      [] PyType(x) = "str"      -> Len(PyVal(x)) > 0
      [] PyType(x) = "list"     -> Len(PyVal(x)) > 0
      [] PyType(x) = "dict"     -> DOMAIN PyVal(x) # {}

HasKey(d, key) == key \in DOMAIN PyVal(d)

\* d[key]
Item(d, key) == PyVal(d)[key]

\* d.get(key, default)
DictGet(d, key, default) == IF HasKey(d, key) THEN Item(d, key) ELSE default

\* d.get(key)
DictGetOrNone(d, key) == DictGet(d, key, PyNone)

\* d[key] = value
SetItem(d, key, value) ==
    PyDict([k \in DOMAIN PyVal(d) \cup {key} |->
               IF k = key THEN value ELSE PyVal(d)[k]])

----------------------------------------------------------------------------
(* json.dump / json.load.  The text of a file is kept as the JSON document *)
(* it spells, << kind, payload >>; text that is not JSON is InvalidJson.   *)

InvalidJson == << "invalid", << >> >>

RECURSIVE JsonDump(_)
JsonDump(p) ==
    CASE PyType(p) = "dict" ->
             << "object", [k \in DOMAIN PyVal(p) |-> JsonDump(PyVal(p)[k])] >>
      [] PyType(p) = "list" ->
             << "array", [i \in DOMAIN PyVal(p) |-> JsonDump(PyVal(p)[i])] >>
      [] PyType(p) = "str" -> << "string", PyVal(p) >>
      [] PyType(p) = "int" -> << "number", PyVal(p) >>
      [] PyType(p) = "bool" -> << IF PyVal(p) THEN "true" ELSE "false", << >> >>
      [] PyType(p) = "NoneType" -> << "null", << >> >>

RECURSIVE JsonLoad(_)
JsonLoad(doc) ==
    CASE doc[1] = "object" ->
             PyDict([k \in DOMAIN doc[2] |-> JsonLoad(doc[2][k])])
      [] doc[1] = "array" ->
             PyList([i \in DOMAIN doc[2] |-> JsonLoad(doc[2][i])])
      [] doc[1] = "string" -> PyStr(doc[2])
      [] doc[1] = "number" -> PyInt(doc[2])
      [] doc[1] = "true" -> PyBool(TRUE)
      [] doc[1] = "false" -> PyBool(FALSE)
      [] doc[1] = "null" -> PyNone

----------------------------------------------------------------------------
(* knowledge_base.py: KnowledgeBase.  `files` is the content of base_path: *)
(* a function from file name to the document stored under it.  `exists`    *)
(* says whether base_path is still there, `writable` whether the file      *)
(* system accepts a modification of it, `clock` is datetime.now().         *)

base_path ==
    << ".", "/", "t", "r", "a", "n", "s", "c", "r", "i", "p", "t", "s" >>

JsonSuffix == << ".", "j", "s", "o", "n" >>

\* os.path.join(base_path, filename), filename relative
PathJoin(base, filename) == base \o << "/" >> \o filename

\* os.path.basename(path)
Basename(path) ==
    LET sl == {i \in DOMAIN path : path[i] = "/"}
    IN  IF sl = {} THEN path ELSE SubSeq(path, MaxOf(sl) + 1, Len(path))

\* s.endswith(suffix)
EndsWith(s, suffix) ==
    /\ Len(s) >= Len(suffix)
    /\ SubSeq(s, Len(s) - Len(suffix) + 1, Len(s)) = suffix

TwoDigits(n) == << Digits[(n \div 10) + 1], Digits[(n % 10) + 1] >>

\* datetime.now().strftime("%Y%m%d_%H%M%S"); the clock counts the seconds
\* of one minute
Stamp(clock) ==
    << "2", "0", "2", "5", "0", "1", "0", "1", "_", "0", "0", "0", "0" >>
        \o TwoDigits(clock)

\* datetime.now().isoformat()
IsoFormat(clock) ==
    << "2", "0", "2", "5", "-", "0", "1", "-", "0", "1", "T", "0", "0", ":",
       "0", "0", ":" >> \o TwoDigits(clock)

\* "".join(c for c in title if c.isalnum() or c in (' ', '-', '_')).rstrip()
SafeTitle(title) ==
    RStrip(SelectSeq(title, LAMBDA c : IsAlnum(c) \/ c \in {" ", "-", "_"}))

FileName(title, clock) ==
    SafeTitle(title) \o << "_" >> \o Stamp(clock) \o JsonSuffix

Put(files, name, doc) ==
    [n \in DOMAIN files \cup {name} |-> IF n = name THEN doc ELSE files[n]]

Drop(files, name) == [n \in DOMAIN files \ {name} |-> files[n]]

\* the `data` dict without the main_content of video_data
SaveData_NoMainContent(video_data, transcription, clock) ==
    PyDict([metadata |->
                PyDict([title    |-> DictGetOrNone(video_data, "video_title"),
                        url      |-> DictGetOrNone(video_data, "video_url"),
                        saved_at |-> PyStr(IsoFormat(clock)),
                        source   |-> PyStr(<< "y", "o", "u", "t", "u", "b", "e" >>)]),
            transcription |-> transcription,
            raw_data      |-> DictGet(video_data, "raw_data", EmptyDict),
            main_content  |-> PyStr(<< >>)])

\* the `data` dict of save_transcription
SaveData(video_data, transcription, clock) ==
    PyDict([metadata |->
                PyDict([title    |-> DictGetOrNone(video_data, "video_title"),
                        url      |-> DictGetOrNone(video_data, "video_url"),
                        saved_at |-> PyStr(IsoFormat(clock)),
                        source   |-> PyStr(<< "y", "o", "u", "t", "u", "b", "e" >>)]),
            transcription |-> transcription,
            raw_data      |-> DictGet(video_data, "raw_data", EmptyDict),
            main_content  |-> DictGet(video_data, "main_content",
                                      PyStr(<< >>))])

\* open(filepath, 'w') creates the file or truncates the one that is there
WriteFile(files, filename, doc) == Put(files, filename, doc)

\* returns [path, files]: the returned path and the directory afterwards
save_transcription(files, exists, writable, clock, video_data, transcription) ==
    LET title == DictGet(video_data, "video_title", PyStr(<< "u", "n", "k", "n", "o", "w", "n" >>))
    IN  IF PyType(title) # "str"
        THEN \* iterating a non-str title raises; caught, "" returned
             [path |-> PyStr(<< >>), files |-> files]
        ELSE LET filename == FileName(PyVal(title), clock)
                 filepath == PathJoin(base_path, filename)
                 data     == SaveData(video_data, transcription, clock)
             IN  IF ~exists \/ ~writable
                 THEN \* open() raises; caught, "" returned
                      [path |-> PyStr(<< >>), files |-> files]
                 ELSE [path  |-> PyStr(filepath),
                       files |-> WriteFile(files, filename, JsonDump(data))]

\* the loop body without the test of the file name's suffix
ListEntry_AnySuffix(files, file) ==
    IF files[file][1] = "invalid" THEN << >>
    ELSE LET data == JsonLoad(files[file])
         IN  IF PyType(data) # "dict" THEN << >>
             ELSE LET meta == DictGet(data, "metadata", EmptyDict)
                  IN  IF PyType(meta) # "dict" THEN << >>
                      ELSE << PyDict(
                                [filename |-> PyStr(file),
                                 title |-> DictGet(meta, "title",
                                                   PyStr(<< "U", "n", "k", "n", "o", "w", "n" >>)),
                                 date  |-> DictGet(meta, "saved_at",
                                                   PyStr(<< >>)),
                                 url   |-> DictGet(meta, "url",
                                                   PyStr(<< >>))]) >>

\* one pass of the loop body of list_transcriptions: the entry appended for
\* `file`, or nothing when the file is skipped
ListEntry(files, file) ==
    IF ~EndsWith(file, JsonSuffix) THEN << >>
    ELSE IF files[file][1] = "invalid" THEN << >>       \* json.load raises
    ELSE LET data == JsonLoad(files[file])
         IN  IF PyType(data) # "dict" THEN << >>        \* data.get raises
             ELSE LET meta == DictGet(data, "metadata", EmptyDict)
                  IN  IF PyType(meta) # "dict" THEN << >>   \* .get raises
                      ELSE << PyDict(
                                [filename |-> PyStr(file),
                                 title |-> DictGet(meta, "title",
                                                   PyStr(<< "U", "n", "k", "n", "o", "w", "n" >>)),
                                 date  |-> DictGet(meta, "saved_at",
                                                   PyStr(<< >>)),
                                 url   |-> DictGet(meta, "url",
                                                   PyStr(<< >>))]) >>

\* the loop over os.listdir(base_path), which yields the names in no
\* particular order
RECURSIVE ListLoop(_, _)
ListLoop(files, names) ==
    IF names = {} THEN << >>
    ELSE LET file == CHOOSE n \in names : TRUE
         IN  ListEntry(files, file) \o ListLoop(files, names \ {file})

\* returns [raised, value]
list_transcriptions(files, exists) ==
    IF ~exists
    THEN \* os.listdir raises outside any try
         [raised |-> TRUE, value |-> PyNone]
    ELSE [raised |-> FALSE, value |-> PyList(ListLoop(files, DOMAIN files))]

\* returns the loaded value; every exception is caught
load_transcription(files, exists, filename) ==
    IF ~exists \/ filename \notin DOMAIN files
    THEN EmptyDict                                      \* open() raises
    ELSE IF files[filename][1] = "invalid"
    THEN EmptyDict                                      \* json.load raises
    ELSE JsonLoad(files[filename])

\* delete_transcription reporting a file that is not there as deleted
delete_transcription_MissingOk(files, exists, writable, filename) ==
    IF exists /\ filename \in DOMAIN files
    THEN IF writable
         THEN [value |-> PyBool(TRUE), files |-> Drop(files, filename)]
         ELSE [value |-> PyBool(FALSE), files |-> files]
    ELSE [value |-> PyBool(TRUE), files |-> files]

\* returns [value, files]
delete_transcription(files, exists, writable, filename) ==
    LET isFile == exists /\ filename \in DOMAIN files
        \* os.path.join(base_path, "") is base_path itself
        isDir  == exists /\ filename = << >>
    IN  IF ~(isFile \/ isDir)
        THEN [value |-> PyBool(FALSE), files |-> files]
        ELSE IF isDir \/ ~writable
        THEN \* os.remove raises; caught
             [value |-> PyBool(FALSE), files |-> files]
        ELSE [value |-> PyBool(TRUE), files |-> Drop(files, filename)]

----------------------------------------------------------------------------
(* tools.py: VideoSearchTool.  `response` is what requests.get does:       *)
(* [exc, status, body] with exc the exception it raises ("none" when it    *)
(* returns), status the HTTP status and body the document of the payload.  *)
(* Every operator of this section and the next returns [result, calls]:    *)
(* the returned value and the calls made on the way, in order.             *)

Call(fn, args, ret) == [fn |-> fn, args |-> args, ret |-> ret]

Msg(text) == PyStr(<< text >>)

\* str(x) inside an f-string or a str() call
StrOf(x) ==
    CASE PyType(x) = "str"      -> PyVal(x)
      [] PyType(x) = "NoneType" -> << "N", "o", "n", "e" >>
      [] OTHER                  -> << "?" >>

\* a failure result without the "results" key
SearchFailure_NoResults(text) ==
    PyDict([success |-> PyBool(FALSE), error |-> Msg(text)])

SearchFailure(text) ==
    PyDict([success |-> PyBool(FALSE),
            error   |-> Msg(text),
            results |-> PyList(<< >>)])

\* the channel name of one entry of video_results
ChannelName(video) ==
    LET channel_info == DictGet(video, "channel", EmptyDict)
    IN  IF PyType(channel_info) = "dict"
        THEN DictGet(channel_info, "name", PyStr(<< "U", "n", "k", "n", "o", "w", "n" >>))
        ELSE IF Truthy(channel_info) THEN PyStr(StrOf(channel_info))
        ELSE PyStr(<< "U", "n", "k", "n", "o", "w", "n" >>)

\* the video_info dict built for one entry of video_results
VideoInfo(video) ==
    PyDict([title       |-> DictGet(video, "title", PyStr(<< "N", "o", " ", "T", "i", "t", "l", "e" >>)),
            link        |-> DictGetOrNone(video, "link"),
            channel     |-> ChannelName(video),
            duration    |-> DictGet(video, "duration", PyStr(<< "N", "/", "A" >>)),
            views       |-> DictGet(video, "views", PyStr(<< "N", "/", "A" >>)),
            thumbnail   |-> DictGetOrNone(video, "thumbnail"),
            description |->
                PyStr(Slice(StrOf(DictGet(video, "description", PyStr(<< >>))),
                            0, 100) \o Ellipsis)])

\* for video in data["video_results"][:num_results]: entries that are not
\* dicts are skipped
RECURSIVE VideoResults(_)
VideoResults(videos) ==
    IF videos = << >> THEN << >>
    ELSE (IF PyType(Head(videos)) = "dict"
          THEN << VideoInfo(Head(videos)) >> ELSE << >>)
         \o VideoResults(Tail(videos))

SearchSuccess(video_results, query) ==
    PyDict([success |-> PyBool(TRUE),
            results |-> PyList(video_results),
            count   |-> PyInt(Len(video_results)),
            query   |-> query])

VideoResultsKey ==
    << "v", "i", "d", "e", "o", "_", "r", "e", "s", "u", "l", "t", "s" >>

\* the part of search_video after response.json()
SearchPayload(data, query, num_results) ==
    CASE PyType(data) = "dict" ->
             IF ~HasKey(data, "video_results")
             THEN SearchSuccess(<< >>, query)
             ELSE LET vr == Item(data, "video_results")
                  IN  CASE PyType(vr) = "list" ->
                               SearchSuccess(
                                   VideoResults(Slice(PyVal(vr), 0, num_results)),
                                   query)
                        [] PyType(vr) = "str" ->
                               \* its characters are not dicts
                               SearchSuccess(<< >>, query)
                        [] OTHER ->
                               SearchFailure("Unexpected error")
      [] PyType(data) = "list" ->
             \* `in` is list membership; indexing by a str then raises
             IF \E i \in DOMAIN PyVal(data) :
                    /\ PyType(PyVal(data)[i]) = "str"
                    /\ PyVal(PyVal(data)[i]) = VideoResultsKey
             THEN SearchFailure("Unexpected error")
             ELSE SearchSuccess(<< >>, query)
      [] OTHER -> SearchFailure("Unexpected error")

search_video(api_key, response, query, num_results) ==
    IF ~api_key
    THEN [result |-> SearchFailure("SERP_API_KEY not configured"),
          calls  |-> << >>]
    ELSE LET get == Call("requests.get", PyList(<< query >>), PyNone)
             result ==
                 CASE response.exc = "Timeout" ->
                          SearchFailure("Request timed out after 30 seconds")
                   [] response.exc = "ConnectionError" ->
                          SearchFailure("Connection error")
                   [] response.exc = "RequestException" ->
                          SearchFailure("Request error")
                   [] response.status # 200 ->
                          SearchFailure("API Error: Status")
                   [] response.body[1] = "invalid" ->
                          SearchFailure("Unexpected error")
                   [] OTHER ->
                          SearchPayload(JsonLoad(response.body), query,
                                        num_results)
         IN  [result |-> result, calls |-> << get >>]

----------------------------------------------------------------------------
(* tools.py: TranscriptionTool.  `extract` is what yt_dlp's extract_info   *)
(* does: [exc, info]; `model` says whether GEMINI_API_KEY configured a     *)
(* model; `generate` is what generate_content does: [exc, text].           *)

RECURSIVE IntToStr(_)
IntToStr(n) ==
    IF n < 10 THEN << Digits[n + 1] >>
    ELSE IntToStr(n \div 10) \o << Digits[(n % 10) + 1] >>

\* the duration_str of get_video_info
DurationStr(duration) ==
    IF ~Truthy(duration) THEN << "N", "/", "A" >>
    ELSE LET total   == PyVal(duration)
             seconds == total % 60
             minutes == (total \div 60) % 60
             hours   == (total \div 60) \div 60
         IN  IF hours > 0
             THEN IntToStr(hours) \o << ":" >> \o TwoDigits(minutes)
                      \o << ":" >> \o TwoDigits(seconds)
             ELSE IntToStr(minutes) \o << ":" >> \o TwoDigits(seconds)

InfoFailure(text) == PyDict([success |-> PyBool(FALSE), error |-> Msg(text)])

get_video_info(video_url, extract) ==
    LET call == Call("extract_info", PyList(<< video_url >>), PyNone)
        info == extract.info
        description == DictGet(info, "description",
                               PyStr(<< "N", "o", " ", "d", "e", "s", "c", "r", "i", "p", "t", "i", "o", "n" >>))
        result ==
            IF extract.exc THEN InfoFailure("extract_info raised")
            ELSE IF PyType(info) # "dict"
            THEN InfoFailure("info.get raised")
            ELSE IF PyType(description) # "str"
            THEN InfoFailure("description[:1000] raised")
            ELSE PyDict(
                   [success     |-> PyBool(TRUE),
                    title       |-> DictGet(info, "title",
                                            PyStr(<< "U", "n", "k", "n", "o", "w", "n", " ", "T", "i", "t", "l", "e" >>)),
                    description |-> PyStr(Slice(PyVal(description), 0, 1000)),
                    duration    |-> PyStr(DurationStr(
                                        DictGet(info, "duration", PyInt(0)))),
                    url         |-> video_url,
                    channel     |-> DictGet(info, "channel",
                                            PyStr(<< "U", "n", "k", "n", "o", "w", "n", " ", "C", "h", "a", "n", "n", "e", "l" >>)),
                    view_count  |-> DictGet(info, "view_count", PyInt(0)),
                    upload_date |-> DictGet(info, "upload_date",
                                            PyStr(<< "U", "n", "k", "n", "o", "w", "n" >>)),
                    categories  |-> DictGet(info, "categories",
                                            PyList(<< >>))])
    IN  [result |-> result, calls |-> << call >>]

\* the text returned when no model is configured
FallbackTranscription(video_info) ==
    << "V", "i", "d", "e", "o", " ", "T", "i", "t", "l", "e", ":", " " >>
    \o StrOf(Item(video_info, "title"))
    \o << "\n", "C", "h", "a", "n", "n", "e", "l", ":", " " >>
    \o StrOf(Item(video_info, "channel"))
    \o << "\n", "D", "u", "r", "a", "t", "i", "o", "n", ":", " " >>
    \o StrOf(Item(video_info, "duration"))
    \o << "\n", "\n", "D", "e", "s", "c", "r", "i", "p", "t", "i", "o",
          "n", ":", "\n" >>
    \o StrOf(Item(video_info, "description"))
    \o << "\n", "\n", "[", "N", "o", "t", "e", ":", " ", "G", "e", "m",
          "i", "n", "i", " ", "A", "P", "I", " ", "k", "e", "y", " ", "n",
          "o", "t", " ", "c", "o", "n", "f", "i", "g", "u", "r", "e", "d",
          ".", " ", "A", "d", "d", " ", "G", "E", "M", "I", "N", "I", "_",
          "A", "P", "I", "_", "K", "E", "Y", " ", "t", "o", " ", ".", "e",
          "n", "v", " ", "f", "o", "r", " ", "A", "I", "-", "p", "o", "w",
          "e", "r", "e", "d", " ", "t", "r", "a", "n", "s", "c", "r", "i",
          "p", "t", "i", "o", "n", "]" >>

\* transcribe_video calling generate_content a second time when it raised
TranscribeFrom_Retry(video_url, video_info, info_calls, model, generate) ==
    IF ~Truthy(Item(video_info, "success"))
    THEN [result |-> PyDict([success   |-> PyBool(FALSE),
                             error     |-> Msg("Failed to get video info"),
                             video_url |-> video_url]),
          calls  |-> info_calls]
    ELSE IF ~model
    THEN [result |-> PyDict(
              [success       |-> PyBool(TRUE),
               transcription |-> PyStr(FallbackTranscription(video_info)),
               video_title   |-> Item(video_info, "title"),
               video_url     |-> video_url,
               raw_data      |-> video_info]),
          calls  |-> info_calls]
    ELSE IF generate.exc
    THEN [result |-> PyDict([success   |-> PyBool(FALSE),
                             error     |-> Msg("generate_content raised"),
                             video_url |-> video_url]),
          calls  |-> info_calls
                     \o << Call("generate_content", PyList(<< video_url >>),
                                PyNone),
                           Call("generate_content", PyList(<< video_url >>),
                                PyNone) >>]
    ELSE [result |-> PyDict(
              [success       |-> PyBool(TRUE),
               transcription |-> PyStr(generate.text),
               video_title   |-> Item(video_info, "title"),
               video_url     |-> video_url,
               raw_data      |-> video_info,
               model_used    |-> PyStr(<< "G", "e", "m", "i", "n", "i", " ",
                                          "1", ".", "5", " ", "F", "l", "a",
                                          "s", "h" >>)]),
          calls  |-> info_calls
                     \o << Call("generate_content", PyList(<< video_url >>),
                                PyNone) >>]

\* transcribe_video once get_video_info has returned `got`
TranscribeFrom(video_url, video_info, info_calls, model, generate) ==
    IF ~Truthy(Item(video_info, "success"))
    THEN [result |-> PyDict([success   |-> PyBool(FALSE),
                             error     |-> Msg("Failed to get video info"),
                             video_url |-> video_url]),
          calls  |-> info_calls]
    ELSE IF ~model
    THEN [result |-> PyDict(
              [success       |-> PyBool(TRUE),
               transcription |-> PyStr(FallbackTranscription(video_info)),
               video_title   |-> Item(video_info, "title"),
               video_url     |-> video_url,
               raw_data      |-> video_info]),
          calls  |-> info_calls]
    ELSE IF generate.exc
    THEN [result |-> PyDict([success   |-> PyBool(FALSE),
                             error     |-> Msg("generate_content raised"),
                             video_url |-> video_url]),
          calls  |-> info_calls
                     \o << Call("generate_content", PyList(<< video_url >>),
                                PyNone) >>]
    ELSE [result |-> PyDict(
              [success       |-> PyBool(TRUE),
               transcription |-> PyStr(generate.text),
               video_title   |-> Item(video_info, "title"),
               video_url     |-> video_url,
               raw_data      |-> video_info,
               model_used    |-> PyStr(<< "G", "e", "m", "i", "n", "i", " ",
                                          "1", ".", "5", " ", "F", "l", "a",
                                          "s", "h" >>)]),
          calls  |-> info_calls
                     \o << Call("generate_content", PyList(<< video_url >>),
                                PyNone) >>]

TranscribeStep(video_url, got, model, generate) ==
    TranscribeFrom(video_url, got.result, got.calls, model, generate)

transcribe_video(video_url, extract, model, generate) ==
    TranscribeStep(video_url, get_video_info(video_url, extract), model,
                   generate)

----------------------------------------------------------------------------
(* agents.py.  Each operator returns [result, files, calls]: the returned  *)
(* value, the directory afterwards and the calls made, in order.           *)

VideoSearchAgent_Return(query, s) ==
    [result |-> s.result,
     calls  |-> s.calls
                \o << Call("search_video", PyList(<< query >>), s.result) >>]

VideoSearchAgent_execute(query, api_key, response) ==
    VideoSearchAgent_Return(query, search_video(api_key, response, query, 1))

\* the video_data dict always titled by the transcription tool
VideoData_ToolTitle(video_url, video_title, result, main_content) ==
    PyDict([video_title  |-> DictGet(result, "video_title",
                                     PyStr(<< "U", "n", "k", "n", "o",
                                              "w", "n" >>)),
            video_url    |-> video_url,
            raw_data     |-> DictGet(result, "raw_data", EmptyDict),
            main_content |-> main_content])

\* the video_data dict of TranscriptionAgent.execute
VideoData(video_url, video_title, result, main_content) ==
    PyDict([video_title  |-> IF Truthy(video_title) THEN video_title
                             ELSE DictGet(result, "video_title",
                                          PyStr(<< "U", "n", "k", "n", "o",
                                                   "w", "n" >>)),
            video_url    |-> video_url,
            raw_data     |-> DictGet(result, "raw_data", EmptyDict),
            main_content |-> main_content])

\* TranscriptionAgent.execute once save_transcription has returned `saved`
ExecuteSaved(result, main_content, video_data, saved, tcalls) ==
    [result |-> SetItem(IF Truthy(saved.path)
                        THEN SetItem(result, "saved_path", saved.path)
                        ELSE result,
                        "main_content", main_content),
     files  |-> saved.files,
     calls  |-> tcalls
                \o << Call("save_transcription",
                           PyList(<< video_data,
                                     Item(result, "transcription") >>),
                           saved.path) >>]

ExecuteSave(result, main_content, video_data, tcalls, files, exists, writable, clock) ==
    ExecuteSaved(result, main_content, video_data,
                 save_transcription(files, exists, writable, clock,
                                    video_data, Item(result, "transcription")),
                 tcalls)

ExecuteContent(video_url, video_title, result, main_content, tcalls, files, exists, writable, clock) ==
    ExecuteSave(result, main_content,
                VideoData(video_url, video_title, result, main_content),
                tcalls, files, exists, writable, clock)

\* TranscriptionAgent.execute saving before it looks at result["success"]
ExecuteFrom_SaveFirst(video_url, video_title, result, tcalls, files, exists, writable, clock) ==
    ExecuteContent(video_url, video_title,
                   SetItem(result, "transcription",
                           DictGet(result, "transcription", PyStr(<< >>))),
                   PyStr(extract_main_content(
                       PyVal(DictGet(result, "transcription",
                                     PyStr(<< >>))))),
                   tcalls, files, exists, writable, clock)

\* TranscriptionAgent.execute once transcribe_video has returned `result`
ExecuteFrom(video_url, video_title, result, tcalls, files, exists, writable, clock) ==
    IF ~Truthy(Item(result, "success"))
    THEN [result |-> result, files |-> files, calls |-> tcalls]
    ELSE ExecuteContent(video_url, video_title, result,
                        PyStr(extract_main_content(
                            PyVal(DictGet(result, "transcription",
                                          PyStr(<< >>))))),
                        tcalls, files, exists, writable, clock)

ExecuteStep(video_url, video_title, t, files, exists, writable, clock) ==
    ExecuteFrom(video_url, video_title, t.result,
                t.calls \o << Call("transcribe_video",
                                   PyList(<< video_url >>), t.result) >>,
                files, exists, writable, clock)

TranscriptionAgent_execute(video_url, video_title, extract, model, generate, files, exists, writable, clock) ==
    ExecuteStep(video_url, video_title,
                transcribe_video(video_url, extract, model, generate),
                files, exists, writable, clock)

\* process_query treating a transcription that was not saved as failed
QueryTranscribed_SaveRequired(search_result, scalls, video_url, video_title, t) ==
    IF ~Truthy(Item(t.result, "success")) \/ ~HasKey(t.result, "saved_path")
    THEN [result |-> PyDict([success |-> PyBool(FALSE),
                             error   |-> DictGetOrNone(t.result, "error"),
                             step    |-> Msg("transcription")]),
          files  |-> t.files,
          calls  |-> scalls \o t.calls]
    ELSE [result |-> PyDict(
              [success        |-> PyBool(TRUE),
               search_results |-> Item(search_result, "results"),
               transcription  |-> Item(t.result, "transcription"),
               video_title    |-> video_title,
               video_url      |-> video_url,
               saved_path     |-> DictGetOrNone(t.result, "saved_path"),
               raw_transcription |-> t.result]),
          files  |-> t.files,
          calls  |-> scalls \o t.calls]

\* process_query once TranscriptionAgent.execute has returned `t`
QueryTranscribed(search_result, scalls, video_url, video_title, t) ==
    IF ~Truthy(Item(t.result, "success"))
    THEN [result |-> PyDict([success |-> PyBool(FALSE),
                             error   |-> DictGetOrNone(t.result, "error"),
                             step    |-> Msg("transcription")]),
          files  |-> t.files,
          calls  |-> scalls \o t.calls]
    ELSE [result |-> PyDict(
              [success        |-> PyBool(TRUE),
               search_results |-> Item(search_result, "results"),
               transcription  |-> Item(t.result, "transcription"),
               video_title    |-> video_title,
               video_url      |-> video_url,
               saved_path     |-> DictGetOrNone(t.result, "saved_path"),
               raw_transcription |-> t.result]),
          files  |-> t.files,
          calls  |-> scalls \o t.calls]

\* process_query with the first video of the results
QueryVideo(search_result, scalls, video, extract, model, generate, files, exists, writable, clock) ==
    QueryTranscribed(search_result, scalls,
                     Item(video, "link"), Item(video, "title"),
                     TranscriptionAgent_execute(
                         Item(video, "link"), Item(video, "title"),
                         extract, model, generate,
                         files, exists, writable, clock))

\* process_query reporting a failed search under the transcription step
QuerySearched_Mislabelled(search_result, scalls, extract, model, generate, files, exists, writable, clock) ==
    IF ~Truthy(Item(search_result, "success"))
       \/ ~Truthy(Item(search_result, "results"))
    THEN [result |-> PyDict([success |-> PyBool(FALSE),
                             error   |-> Msg("No videos found"),
                             step    |-> Msg("transcription")]),
          files  |-> files,
          calls  |-> scalls]
    ELSE QueryVideo(search_result, scalls,
                    PyVal(Item(search_result, "results"))[1],
                    extract, model, generate, files, exists, writable, clock)

\* process_query once VideoSearchAgent.execute has returned
QuerySearched(search_result, scalls, extract, model, generate, files, exists, writable, clock) ==
    IF ~Truthy(Item(search_result, "success"))
       \/ ~Truthy(Item(search_result, "results"))
    THEN [result |-> PyDict([success |-> PyBool(FALSE),
                             error   |-> Msg("No videos found"),
                             step    |-> Msg("search")]),
          files  |-> files,
          calls  |-> scalls]
    ELSE QueryVideo(search_result, scalls,
                    PyVal(Item(search_result, "results"))[1],
                    extract, model, generate, files, exists, writable, clock)

QueryStep(s, extract, model, generate, files, exists, writable, clock) ==
    QuerySearched(s.result, s.calls, extract, model, generate,
                  files, exists, writable, clock)

process_query(query, api_key, response, extract, model, generate, files, exists, writable, clock) ==
    QueryStep(VideoSearchAgent_execute(query, api_key, response),
              extract, model, generate, files, exists, writable, clock)

----------------------------------------------------------------------------
(* The environment: what the search provider, yt_dlp and the generative    *)
(* API answer, drawn from small sets.                                      *)

Chars_T == << "T" >>

Chars_TBang == << "T", "!" >>

Chars_U == << "U" >>

EndToEndText ==
    << "I", "n", "t", "r", "o", ".", " ", "M", "a", "i", "n", " ", "t",
       "a", "k", "e", "a", "w", "a", "y", "s", ":", " ", "A", " ", "B",
       " ", "C", ".", " ", "D", "o", "n", "e", "." >>

Video(title) == PyDict([title |-> PyStr(title), link |-> PyStr(Chars_U)])

UntitledVideo == PyDict([link |-> PyStr(Chars_U)])

OtherVideo == PyDict([title |-> PyStr(<< "Z" >>), link |-> PyStr(<< "V" >>)])

\* another video with the title of Video(Chars_T)
SameTitleVideo == PyDict([title |-> PyStr(Chars_T), link |-> PyStr(<< "V" >>)])

Payload(videos) == JsonDump(PyDict([video_results |-> PyList(videos)]))

Answer(body) == [exc |-> "none", status |-> 200, body |-> body]

Responses ==
    << [exc |-> "Timeout", status |-> 0, body |-> InvalidJson],
       [exc |-> "none", status |-> 500, body |-> InvalidJson],
       Answer(InvalidJson),
       Answer(JsonDump(PyDict([error |-> PyStr(<< "q", "u", "o", "t", "a" >>)]))),
       Answer(Payload(<< >>)),
       Answer(Payload(<< PyStr(Chars_T) >>)),
       Answer(Payload(<< Video(Chars_TBang) >>)),
       Answer(Payload(<< Video(<< >>) >>)),
       Answer(Payload(<< UntitledVideo >>)),
       Answer(Payload(<< Video(Chars_T), OtherVideo >>)),
       Answer(Payload(<< SameTitleVideo >>)) >>

Extracts ==
    << [exc |-> TRUE, info |-> PyNone],
       [exc |-> FALSE,
        info |-> PyDict([title       |-> PyStr(<< "Y" >>),
                         description |-> PyStr(<< "D", "." >>),
                         duration    |-> PyInt(61),
                         channel     |-> PyStr(<< "C", "h" >>)])] >>

Generates ==
    << [exc |-> TRUE, text |-> << >>],
       [exc |-> FALSE, text |-> EndToEndText] >>

Query == PyStr(<< "X" >>)

\* a name no save produces, and the empty name
AbsentName == << "g", "o", "n", "e", ".", "j", "s", "o", "n" >>

ExternalFiles ==
    << [name |-> << "x", ".", "j", "s", "o", "n" >>, doc |-> InvalidJson],
       [name |-> << "x", ".", "j", "s", "o", "n" >>,
        doc  |-> JsonDump(PyList(<< >>))],
       [name |-> << "x", ".", "j", "s", "o", "n" >>,
        doc  |-> JsonDump(PyDict([metadata |-> PyNone]))],
       [name |-> << "x", ".", "j", "s", "o", "n" >>,
        doc  |-> JsonDump(PyDict([transcription |-> PyStr(<< >>)]))],
       [name |-> << "n", ".", "t", "x", "t" >>, doc |-> JsonDump(EmptyDict)] >>

----------------------------------------------------------------------------
(* The state machine *)

MaxNow == 1

MaxFiles == 2

VARIABLES
    config,     \* what the constructors read from the environment:
                \* [api_key, model], whether SERP_API_KEY is set and
                \* whether GEMINI_API_KEY configured a model
    dir,        \* the files of base_path: name -> document
    baseExists, \* whether base_path exists
    now,        \* the clock, in seconds
    call,       \* the operation called last: [op, args]; the args of
                \* delete_transcription end with whether the file system
                \* accepted a modification during the call, and a call
                \* of a tool on its own has a third field, env
    ret,        \* what it did: [raised, value]
    calls       \* the calls it made on the way, in order

vars == << config, dir, baseExists, now, call, ret, calls >>

NoFiles == [n \in {} |-> InvalidJson]

Init ==
    /\ config \in [api_key : BOOLEAN, model : BOOLEAN]
    /\ dir = NoFiles
    /\ baseExists = TRUE
    /\ now = 0
    /\ call = [op |-> "init", args |-> PyList(<< >>)]
    /\ ret = [raised |-> FALSE, value |-> PyNone]
    /\ calls = << >>

Returned(value) == [raised |-> FALSE, value |-> value]

SearchFound(search_result) ==
    /\ Truthy(Item(search_result, "success"))
    /\ Truthy(Item(search_result, "results"))

\* the orchestrator's process_query; the environment's answers are drawn
\* only for the calls the workflow gets to
ProcessQuery ==
    /\ Cardinality(DOMAIN dir) < MaxFiles
    /\ \E r \in (IF config.api_key THEN DOMAIN Responses ELSE {1}) :
         \E found \in {SearchFound(
                           VideoSearchAgent_execute(Query, config.api_key,
                                                    Responses[r]).result)} :
           \E e \in (IF found THEN DOMAIN Extracts ELSE {1}) :
           \E g \in (IF found /\ ~Extracts[e].exc /\ config.model
                     THEN DOMAIN Generates ELSE {1}) :
           \E w \in (IF found /\ ~Extracts[e].exc
                        /\ ~(config.model /\ Generates[g].exc)
                     THEN BOOLEAN ELSE {TRUE}) :
               \E out \in {process_query(Query, config.api_key, Responses[r],
                                         Extracts[e], config.model,
                                         Generates[g],
                                         dir, baseExists, w, now)} :
                   /\ call' = [op |-> "process_query",
                               args |-> PyList(<< Query >>)]
                   /\ ret' = Returned(out.result)
                   /\ calls' = out.calls
                   /\ dir' = out.files
                   /\ UNCHANGED << config, baseExists, now >>

ListTranscriptions ==
    /\ call' = [op |-> "list_transcriptions", args |-> PyList(<< >>)]
    /\ ret' = list_transcriptions(dir, baseExists)
    /\ calls' = << >>
    /\ UNCHANGED << config, dir, baseExists, now >>

FileNameInputs == DOMAIN dir \cup {AbsentName, << >>}

LoadTranscription ==
    \E filename \in FileNameInputs :
        /\ call' = [op |-> "load_transcription",
                    args |-> PyList(<< PyStr(filename) >>)]
        /\ ret' = Returned(load_transcription(dir, baseExists, filename))
        /\ calls' = << >>
        /\ UNCHANGED << config, dir, baseExists, now >>

DeleteTranscription ==
    \E filename \in FileNameInputs, writable \in BOOLEAN :
        \E out \in {delete_transcription(dir, baseExists, writable, filename)} :
            /\ call' = [op |-> "delete_transcription",
                        args |-> PyList(<< PyStr(filename),
                                           PyBool(writable) >>)]
            /\ ret' = Returned(out.value)
            /\ calls' = << >>
            /\ dir' = out.files
            /\ UNCHANGED << config, baseExists, now >>

\* a step that is no call of the program
External(op) ==
    /\ call' = [op |-> op, args |-> PyList(<< >>)]
    /\ ret' = Returned(PyNone)
    /\ calls' = << >>
    /\ UNCHANGED config

\* a second passes
Tick ==
    /\ now < MaxNow
    /\ now' = now + 1
    /\ UNCHANGED << dir, baseExists >>
    /\ External("tick")

\* somebody else puts a file into base_path
ExternalWrite ==
    /\ baseExists
    /\ Cardinality(DOMAIN dir) < MaxFiles
    /\ \E x \in DOMAIN ExternalFiles :
           dir' = Put(dir, ExternalFiles[x].name, ExternalFiles[x].doc)
    /\ UNCHANGED << baseExists, now >>
    /\ External("external_write")

\* somebody else removes base_path with all it holds
ExternalRemoveDir ==
    /\ baseExists
    /\ baseExists' = FALSE
    /\ dir' = NoFiles
    /\ UNCHANGED now
    /\ External("external_rmtree")

\* somebody else creates base_path again
ExternalMakeDir ==
    /\ ~baseExists
    /\ baseExists' = TRUE
    /\ dir' = NoFiles
    /\ UNCHANGED now
    /\ External("external_mkdir")

Next ==
    \/ ProcessQuery
    \/ ListTranscriptions
    \/ LoadTranscription
    \/ DeleteTranscription
    \/ Tick
    \/ ExternalWrite
    \/ ExternalRemoveDir
    \/ ExternalMakeDir

Spec == Init /\ [][Next]_vars

----------------------------------------------------------------------------
(* The tools and the extractor called on their own.  They keep no state    *)
(* between calls, so each behaviour constructs them and makes one call;    *)
(* the environment's answers are drawn from wider sets than above, and     *)
(* `call` also records, as `env`, which answers the call got.              *)

\* further answers of the search provider
MoreResponses ==
    << [exc |-> "ConnectionError", status |-> 0, body |-> InvalidJson],
       [exc |-> "RequestException", status |-> 0, body |-> InvalidJson],
       [exc |-> "none", status |-> 404,
        body |-> Payload(<< Video(Chars_T) >>)],
       Answer(JsonDump(PyDict([video_results |-> PyNone]))),
       Answer(JsonDump(PyDict([video_results |-> PyInt(5)]))),
       Answer(JsonDump(PyDict([video_results |-> PyStr(Chars_T)]))),
       Answer(JsonDump(PyList(<< PyStr(VideoResultsKey) >>))),
       Answer(JsonDump(PyList(<< >>))),
       Answer(JsonDump(PyInt(5))),
       Answer(JsonDump(PyNone)),
       Answer(Payload(<< OtherVideo, Video(Chars_T), SameTitleVideo >>)) >>

SearchResponses == Responses \o MoreResponses

\* further answers of yt_dlp: None for a video it cannot read (its
\* ignoreerrors option), an info dict without any field, one whose
\* description is None, one of more than an hour
MoreExtracts ==
    << [exc |-> FALSE, info |-> PyNone],
       [exc |-> FALSE, info |-> EmptyDict],
       [exc |-> FALSE,
        info |-> PyDict([title |-> PyStr(<< "Y" >>), description |-> PyNone])],
       [exc |-> FALSE,
        info |-> PyDict([title       |-> PyStr(<< "Y" >>),
                         description |-> PyStr(<< "D", "." >>),
                         duration    |-> PyInt(3661)])] >>

InfoCases == Extracts \o MoreExtracts

\* s repeated n times
Repeat(s, n) == [i \in 1 .. (n * Len(s)) |-> s[((i - 1) % Len(s)) + 1]] \o << >>

\* the pieces the texts given to the extractor are made of: two headings,
\* two sentences, one sentence, a blank line, and 402 characters of words
\* without a sentence end
Pieces ==
    << << "M", "a", "i", "n", " ", "t", "a", "k", "e", "a", "w", "a", "y",
          "s", ":", " " >>,
       << "K", "e", "y", " ", "t", "a", "k", "e", "a", "w", "a", "y", "s",
          ":", " " >>,
       << "A", ".", " ", "B", "?", "\n" >>,
       << "C", "!", " " >>,
       << "\n", "\n" >>,
       Repeat(<< "a", "b", "c", "d", "e", " " >>, 67) >>

MaxPieces == 3

\* the texts of at most n pieces
RECURSIVE TextsOf(_)
TextsOf(n) ==
    IF n = 0 THEN {<< >>}
    ELSE LET shorter == TextsOf(n - 1)
         IN  shorter \cup {t \o Pieces[p] : t \in shorter, p \in DOMAIN Pieces}

Texts == TextsOf(MaxPieces)

\* VideoSearchTool().search_video(query, num_results)
SearchVideo ==
    /\ call.op = "init"
    /\ \E r \in (IF config.api_key THEN DOMAIN SearchResponses ELSE {1}) :
         \E n \in 1 .. 2 :
           \E out \in {search_video(config.api_key, SearchResponses[r],
                                    Query, n)} :
               /\ call' = [op   |-> "search_video",
                           args |-> PyList(<< Query, PyInt(n) >>),
                           env  |-> [response |-> r]]
               /\ ret' = Returned(out.result)
               /\ calls' = out.calls
               /\ UNCHANGED << config, dir, baseExists, now >>

\* TranscriptionTool().transcribe_video(video_url)
TranscribeVideo ==
    /\ call.op = "init"
    /\ \E e \in DOMAIN InfoCases :
         \E g \in (IF config.model THEN DOMAIN Generates ELSE {1}) :
           \E out \in {transcribe_video(PyStr(Chars_U), InfoCases[e],
                                        config.model, Generates[g])} :
               /\ call' = [op   |-> "transcribe_video",
                           args |-> PyList(<< PyStr(Chars_U) >>),
                           env  |-> [extract |-> e, generate |-> g]]
               /\ ret' = Returned(out.result)
               /\ calls' = out.calls
               /\ UNCHANGED << config, dir, baseExists, now >>

\* TranscriptionAgent()._extract_main_content(transcription)
ExtractMainContent ==
    /\ call.op = "init"
    /\ \E text \in Texts :
           /\ call' = [op   |-> "extract_main_content",
                       args |-> PyList(<< PyStr(text) >>)]
           /\ ret' = Returned(PyStr(extract_main_content(text)))
           /\ calls' = << >>
           /\ UNCHANGED << config, dir, baseExists, now >>

ToolNext ==
    \/ SearchVideo
    \/ TranscribeVideo
    \/ ExtractMainContent

ToolSpec == Init /\ [][ToolNext]_vars

----------------------------------------------------------------------------
(* What a state shows of the call made last *)

Result == ret.value

IsProcessQuery == call.op = "process_query"

CallsOf(fn) == SelectSeq(calls, LAMBDA c : c.fn = fn)

Made(fn) == Len(CallsOf(fn)) > 0

\* what VideoSearchAgent.execute returned to process_query
SearchResult == CallsOf("search_video")[1].ret

\* what transcribe_video returned to TranscriptionAgent.execute
TranscribeResult == CallsOf("transcribe_video")[1].ret

SaveCall == CallsOf("save_transcription")[1]

SearchFailed ==
    \/ ~Truthy(Item(SearchResult, "success"))
    \/ ~Truthy(Item(SearchResult, "results"))

TranscriptionFailed ==
    /\ Made("transcribe_video")
    /\ ~Truthy(Item(TranscribeResult, "success"))

SaveFailed == Made("save_transcription") /\ ~Truthy(SaveCall.ret)

SaveSucceeded == Made("save_transcription") /\ Truthy(SaveCall.ret)

Succeeded ==
    /\ IsProcessQuery
    /\ ~ret.raised
    /\ Truthy(DictGetOrNone(Result, "success"))

\* what TranscriptionAgent.execute returned to process_query
RawTranscription == Item(Result, "raw_transcription")

\* the entry load_transcription finds under the base name of `path`
StoredAt(path) == load_transcription(dir, baseExists, Basename(PyVal(path)))

----------------------------------------------------------------------------
(* Claims about process_query *)

\* C1: whenever the search step of a process_query call returns
\* success=false or an empty results list, the call returns success=false
\* with step "search", and it calls neither transcribe_video (nor anything
\* transcribe_video calls) nor save_transcription.
C1_SearchFailureStops ==
    (IsProcessQuery /\ SearchFailed) =>
        /\ ~ret.raised
        /\ Item(Result, "success") = PyBool(FALSE)
        /\ Item(Result, "step") = Msg("search")
        /\ ~Made("transcribe_video")
        /\ ~Made("extract_info")
        /\ ~Made("generate_content")
        /\ ~Made("save_transcription")

\* a search that the provider answered with success and no video
C1_Witness ==
    /\ IsProcessQuery
    /\ Made("requests.get")
    /\ Truthy(Item(SearchResult, "success"))
    /\ ~Truthy(Item(SearchResult, "results"))
    /\ Item(Result, "step") = Msg("search")

\* C2: every process_query step in which the search found a video and
\* transcribe_video returned success=false returns success=false with step
\* "transcription", makes no call of save_transcription and leaves the
\* directory as it was before the call.
C2_TranscriptionFailureStops ==
    [][(call'.op = "process_query" /\ TranscriptionFailed') =>
           /\ ~ret'.raised
           /\ ~SearchFailed'
           /\ Item(Result', "success") = PyBool(FALSE)
           /\ Item(Result', "step") = Msg("transcription")
           /\ ~Made("save_transcription")'
           /\ dir' = dir]_vars

\* a transcription that failed while the directory held a file
C2_Witness ==
    /\ IsProcessQuery
    /\ TranscriptionFailed
    /\ Item(Result, "step") = Msg("transcription")
    /\ DOMAIN dir # {}

\* C3: whenever search and transcription of a process_query call succeed
\* and save_transcription returns the empty string, the call still returns
\* success=true with the transcription text, and its saved_path is None.
C3_SaveFailureNonFatal ==
    (IsProcessQuery /\ SaveFailed) =>
        /\ ~ret.raised
        /\ Item(Result, "success") = PyBool(TRUE)
        /\ Item(Result, "transcription")
               = Item(TranscribeResult, "transcription")
        /\ ~Truthy(Item(Result, "saved_path"))
        /\ ~HasKey(RawTranscription, "saved_path")

\* a save that failed although base_path was there
C3_Witness ==
    /\ IsProcessQuery
    /\ SaveFailed
    /\ baseExists
    /\ Truthy(Item(Result, "success"))

\* C4: every successful process_query result has, as keys of the returned
\* dict itself, success, the search-results list, the transcription text,
\* main_content equal to extract_main_content of the transcription text,
\* the title, the url and the saved path.
C4_ResultCarriesMainContent ==
    Succeeded =>
        /\ Item(Result, "search_results") = Item(SearchResult, "results")
        /\ Item(Result, "transcription")
               = Item(TranscribeResult, "transcription")
        /\ HasKey(Result, "video_title")
        /\ HasKey(Result, "video_url")
        /\ HasKey(Result, "saved_path")
        /\ HasKey(Result, "main_content")
        /\ Item(Result, "main_content")
               = PyStr(extract_main_content(
                           PyVal(Item(Result, "transcription"))))

\* the end-to-end scenario: the first result is {title "T", link "U"} and
\* the transcription is "Intro. Main takeaways: A B C. Done."
EndToEndCase ==
    /\ Succeeded
    /\ Len(PyVal(Item(Result, "search_results"))) = 1
    /\ Item(Result, "video_title") = PyStr(Chars_T)
    /\ Item(Result, "video_url") = PyStr(Chars_U)
    /\ Item(Result, "transcription") = PyStr(EndToEndText)

\* C5 as stated: in the end-to-end scenario the derived main_content is
\* "A B C.", the text after the marker without the sentence "Done.".
C5_MainContentFirstSentence ==
    EndToEndCase =>
        Item(RawTranscription, "main_content")
            = PyStr(<< "A", " ", "B", " ", "C", "." >>)

\* C5 amended: in the end-to-end scenario the derived main_content is
\* "A B C. Done.", all the text after the marker, since no blank line and
\* no 400-character limit ends it earlier.
C5_MainContentToEndOfParagraph ==
    EndToEndCase =>
        Item(RawTranscription, "main_content")
            = PyStr(<< "A", " ", "B", " ", "C", ".", " ",
                       "D", "o", "n", "e", "." >>)

C5_Witness == EndToEndCase /\ HasKey(RawTranscription, "main_content")

\* C6 as stated: after a successful process_query call whose save
\* succeeded, the stored entry has metadata.title equal to the returned
\* video_title, metadata.url equal to the returned video_url, main_content
\* equal to the derived main_content and transcription equal to the
\* returned transcription, whatever the first result's title.
C6_StoredEqualsReturned ==
    (Succeeded /\ Truthy(Item(Result, "saved_path"))) =>
        LET stored == StoredAt(Item(Result, "saved_path"))
        IN  /\ Item(Item(stored, "metadata"), "title")
                   = Item(Result, "video_title")
            /\ Item(Item(stored, "metadata"), "url")
                   = Item(Result, "video_url")
            /\ Item(stored, "main_content")
                   = Item(RawTranscription, "main_content")
            /\ Item(stored, "transcription") = Item(Result, "transcription")

\* C6 amended: as C6, but metadata.title equals the returned video_title
\* only when that title is not empty; when the first result's title is
\* empty the stored title is the video_title transcribe_video returned,
\* while process_query still returns the empty title.
C6_StoredTitleFallsBack ==
    (Succeeded /\ Truthy(Item(Result, "saved_path"))) =>
        LET stored == StoredAt(Item(Result, "saved_path"))
        IN  /\ Item(Item(stored, "metadata"), "title")
                   = IF Truthy(Item(Result, "video_title"))
                     THEN Item(Result, "video_title")
                     ELSE Item(TranscribeResult, "video_title")
            /\ Item(Item(stored, "metadata"), "url")
                   = Item(Result, "video_url")
            /\ Item(Item(stored, "metadata"), "url")
                   = Item(PyVal(Item(SearchResult, "results"))[1], "link")
            /\ Item(stored, "main_content")
                   = Item(RawTranscription, "main_content")
            /\ Item(stored, "main_content")
                   = PyStr(extract_main_content(
                               PyVal(Item(Result, "transcription"))))
            /\ Item(stored, "transcription") = Item(Result, "transcription")

\* a saved result whose first search result had an empty title
C6_Witness ==
    /\ Succeeded
    /\ Truthy(Item(Result, "saved_path"))
    /\ Item(Result, "video_title") = PyStr(<< >>)

----------------------------------------------------------------------------
(* Claims about KnowledgeBase *)

\* C7: after a successful save_transcription(video_data, transcription),
\* load_transcription of the base name of the returned path returns a
\* record whose metadata title and url, transcription, raw_data and
\* main_content are exactly the values passed to the save.
C7_SaveLoadRoundTrip ==
    (IsProcessQuery /\ SaveSucceeded) =>
        LET video_data    == PyVal(SaveCall.args)[1]
            transcription == PyVal(SaveCall.args)[2]
            loaded        == StoredAt(SaveCall.ret)
        IN  /\ Item(Item(loaded, "metadata"), "title")
                   = Item(video_data, "video_title")
            /\ Item(Item(loaded, "metadata"), "url")
                   = Item(video_data, "video_url")
            /\ Item(loaded, "transcription") = transcription
            /\ Item(loaded, "raw_data") = Item(video_data, "raw_data")
            /\ Item(loaded, "main_content") = Item(video_data, "main_content")

\* a save of an entry none of whose parts is empty
C7_Witness ==
    /\ IsProcessQuery
    /\ SaveSucceeded
    /\ Truthy(Item(PyVal(SaveCall.args)[1], "raw_data"))
    /\ Truthy(Item(PyVal(SaveCall.args)[1], "main_content"))
    /\ Truthy(PyVal(SaveCall.args)[2])

\* C8: no save changes the content stored under a file name that already
\* holds an entry: every file of the directory before a process_query step
\* is there with the same content after it.
C8_WriteOnce ==
    [][call'.op = "process_query" =>
           \A f \in DOMAIN dir : f \in DOMAIN dir' /\ dir'[f] = dir[f]]_vars

\* a document that list_transcriptions can read as a record: a JSON object
\* whose "metadata", when it has one, is an object
IsRecord(doc) ==
    /\ doc[1] # "invalid"
    /\ PyType(JsonLoad(doc)) = "dict"
    /\ PyType(DictGet(JsonLoad(doc), "metadata", EmptyDict)) = "dict"

Listed(f) ==
    {i \in DOMAIN PyVal(Result) :
         Item(PyVal(Result)[i], "filename") = PyStr(f)}

\* C9: while base_path exists, every list_transcriptions step returns
\* without raising exactly one entry {filename, title, date, url} for each
\* .json file that holds a record, none for any other file, and it leaves
\* the directory unchanged.
C9_ListSkipsCorrupt ==
    [][(call'.op = "list_transcriptions" /\ baseExists) =>
           /\ ~ret'.raised
           /\ dir' = dir
           /\ \A f \in DOMAIN dir :
                  Cardinality(Listed(f)')
                      = IF EndsWith(f, JsonSuffix) /\ IsRecord(dir[f])
                        THEN 1 ELSE 0
           /\ \A i \in DOMAIN PyVal(Result') :
                  LET entry == PyVal(Result')[i]
                  IN  /\ DOMAIN PyVal(entry)
                             = {"filename", "title", "date", "url"}
                      /\ PyVal(Item(entry, "filename")) \in DOMAIN dir
                      /\ LET meta == DictGet(
                                  JsonLoad(dir[PyVal(Item(entry, "filename"))]),
                                  "metadata", EmptyDict)
                         IN  /\ HasKey(meta, "title")
                                    => Item(entry, "title") = Item(meta, "title")
                             /\ HasKey(meta, "url")
                                    => Item(entry, "url") = Item(meta, "url")
                             /\ HasKey(meta, "saved_at")
                                    => Item(entry, "date")
                                           = Item(meta, "saved_at")]_vars

\* a listing of a directory that holds a saved entry and a file that is
\* not a record
C9_Witness ==
    /\ call.op = "list_transcriptions"
    /\ ~ret.raised
    /\ Len(PyVal(Result)) = 1
    /\ Cardinality(DOMAIN dir) = 2
    /\ \E f \in DOMAIN dir : ~IsRecord(dir[f])

\* the file name and the file system's answer of a delete_transcription
DeleteName(c) == PyVal(PyVal(c.args)[1])

DeleteWritable(c) == PyVal(PyVal(c.args)[2])

\* C10 as stated: a delete_transcription step for a file name not in the
\* directory returns false and changes no file; one for a file name in the
\* directory removes exactly that file and returns true.
C10_DeleteRemovesOrFalse ==
    [][call'.op = "delete_transcription" =>
           /\ ~ret'.raised
           /\ IF DeleteName(call') \in DOMAIN dir
              THEN /\ Result' = PyBool(TRUE)
                   /\ dir' = Drop(dir, DeleteName(call'))
              ELSE /\ Result' = PyBool(FALSE)
                   /\ dir' = dir]_vars

\* C10 amended: a delete_transcription step for a file name not in the
\* directory returns false and changes no file, and so does the same call
\* made again; one for a file name in the directory removes exactly that
\* file and returns true unless the removal fails in the file system, and
\* then it returns false and changes no file.
C10_DeleteUnlessRefused ==
    [][call'.op = "delete_transcription" =>
           /\ ~ret'.raised
           /\ IF DeleteName(call') \in DOMAIN dir /\ DeleteWritable(call')
              THEN /\ Result' = PyBool(TRUE)
                   /\ dir' = Drop(dir, DeleteName(call'))
              ELSE /\ Result' = PyBool(FALSE)
                   /\ dir' = dir
           /\ DeleteName(call') \notin DOMAIN dir =>
                  \A w \in BOOLEAN :
                      delete_transcription(dir', baseExists', w,
                                           DeleteName(call'))
                          = [value |-> PyBool(FALSE), files |-> dir']]_vars

\* a delete of a file that is there, refused by the file system
C10_Witness ==
    /\ call.op = "delete_transcription"
    /\ DeleteName(call) \in DOMAIN dir
    /\ Result = PyBool(FALSE)

----------------------------------------------------------------------------
(* Claims about the tools *)

\* what yt_dlp and generate_content answered to a transcribe_video call
ExtractAnswer == InfoCases[call.env.extract]

GenerateAnswer == Generates[call.env.generate]

\* what get_video_info made of yt_dlp's answer
Fetched == get_video_info(PyStr(Chars_U), ExtractAnswer).result

Contains(text, part) == Find(text, part) # -1

\* C11: transcribe_video never raises and never retries.  It calls
\* extract_info once; when the metadata fetch fails it returns
\* success=false with an error and does not call generate_content; when no
\* model is configured it returns success=true with a fallback text built
\* from title, channel, duration and description and does not call
\* generate_content; otherwise it calls generate_content exactly once, and
\* an exception of that call gives success=false with an error.
C11_TranscribeLinear ==
    call.op = "transcribe_video" =>
        /\ ~ret.raised
        /\ PyType(Result) = "dict"
        /\ Len(CallsOf("extract_info")) = 1
        /\ (ExtractAnswer.exc \/ PyType(ExtractAnswer.info) # "dict")
               => ~Truthy(Item(Fetched, "success"))
        /\ IF ~Truthy(Item(Fetched, "success"))
           THEN /\ Item(Result, "success") = PyBool(FALSE)
                /\ HasKey(Result, "error")
                /\ ~Made("generate_content")
           ELSE IF ~config.model
           THEN /\ Item(Result, "success") = PyBool(TRUE)
                /\ ~Made("generate_content")
                /\ PyType(Item(Result, "transcription")) = "str"
                /\ \A field \in {"title", "channel", "duration", "description"} :
                       Contains(PyVal(Item(Result, "transcription")),
                                StrOf(Item(Fetched, field)))
                /\ Contains(PyVal(Item(Result, "transcription")),
                            << "n", "o", "t", " ", "c", "o", "n", "f", "i",
                               "g", "u", "r", "e", "d" >>)
           ELSE /\ Len(CallsOf("generate_content")) = 1
                /\ IF GenerateAnswer.exc
                   THEN /\ Item(Result, "success") = PyBool(FALSE)
                        /\ HasKey(Result, "error")
                   ELSE /\ Item(Result, "success") = PyBool(TRUE)
                        /\ Item(Result, "transcription")
                               = PyStr(GenerateAnswer.text)

\* a transcribe_video whose generate_content raised
C11_Witness ==
    /\ call.op = "transcribe_video"
    /\ config.model
    /\ GenerateAnswer.exc
    /\ Made("generate_content")
    /\ Item(Result, "success") = PyBool(FALSE)

\* what requests.get answered to a search_video call
SearchAnswer == SearchResponses[call.env.response]

\* {"success": False, "error": <a str>, "results": []}
FailureResult(r) ==
    /\ PyType(r) = "dict"
    /\ DictGetOrNone(r, "success") = PyBool(FALSE)
    /\ PyType(DictGetOrNone(r, "error")) = "str"
    /\ DictGetOrNone(r, "results") = PyList(<< >>)

\* a body that is no JSON, or a JSON object whose "video_results" is there
\* but is no sequence
Malformed(body) ==
    \/ body[1] = "invalid"
    \/ /\ PyType(JsonLoad(body)) = "dict"
       /\ HasKey(JsonLoad(body), "video_results")
       /\ PyType(Item(JsonLoad(body), "video_results")) \notin {"list", "str"}

\* C12: search_video never raises.  Without an API key it returns a
\* failure result and makes no network call; a timeout, a connection
\* error, a status other than 200 and a malformed payload each give
\* success=false, an error string and an empty results list; any other
\* answer gives success=true with at most num_results results.
C12_SearchNeverRaises ==
    call.op = "search_video" =>
        /\ ~ret.raised
        /\ IF ~config.api_key
           THEN FailureResult(Result) /\ ~Made("requests.get")
           ELSE /\ Len(CallsOf("requests.get")) = 1
                /\ (\/ SearchAnswer.exc # "none"
                    \/ SearchAnswer.status # 200
                    \/ Malformed(SearchAnswer.body))
                       => FailureResult(Result)
                /\ \/ FailureResult(Result)
                   \/ /\ PyType(Result) = "dict"
                      /\ DictGetOrNone(Result, "success") = PyBool(TRUE)
                      /\ PyType(DictGetOrNone(Result, "results")) = "list"
                      /\ Len(PyVal(Item(Result, "results")))
                             <= PyVal(PyVal(call.args)[2])

\* a search answered with status 404 and a payload that holds a video
C12_Witness ==
    /\ call.op = "search_video"
    /\ config.api_key
    /\ SearchAnswer.status = 404
    /\ ~Malformed(SearchAnswer.body)
    /\ FailureResult(Result)

----------------------------------------------------------------------------
(* Claims about _extract_main_content *)

\* the text an extract_main_content call was given
ExtractText == PyVal(PyVal(call.args)[1])

\* the offset of each marker in the text, -1 for a marker not in it
MarkerOffsets(text) ==
    [k \in DOMAIN markers |-> Find(Lower(text), markers[k])] \o << >>

MarkersFound(offsets) == {k \in DOMAIN offsets : offsets[k] # -1}

\* the marker found at the lowest offset, the first of the list among equals
EarliestMarker(offsets) ==
    CHOOSE k \in MarkersFound(offsets) :
        \A j \in MarkersFound(offsets) :
            \/ offsets[k] < offsets[j]
            \/ offsets[k] = offsets[j] /\ k <= j

EarliestCandidate(text, offsets) ==
    MarkerCandidate(text, markers[EarliestMarker(offsets)],
                    offsets[EarliestMarker(offsets)])

\* C13: when the text contains markers, extract_main_content returns the
\* snippet that follows the marker occurrence with the lowest offset in the
\* text (the first of the marker list among markers at the same offset).
C13_EarliestMarkerWins ==
    (call.op = "extract_main_content"
         /\ MarkersFound(MarkerOffsets(ExtractText)) # {}) =>
        Result = PyStr(EarliestCandidate(ExtractText,
                                         MarkerOffsets(ExtractText)))

\* the text returned by an extract_main_content call
ExtractOutput == PyVal(Result)

\* an output without the "..." a truncation appended
WithoutEllipsis(out) ==
    IF EndsWith(out, Ellipsis) THEN SubSeq(out, 1, Len(out) - Len(Ellipsis))
    ELSE out

\* the characters after the last whitespace of s
LastWord(s) ==
    LET ws == {i \in DOMAIN s : s[i] \in Whitespace}
    IN  IF ws = {} THEN s ELSE SubSeq(s, MaxOf(ws) + 1, Len(s))

\* w occurs in the text with the end of the text or whitespace after it
EndsAWordOf(w, text) ==
    \/ w = << >>
    \/ \E i \in 0 .. (Len(text) - Len(w)) :
           /\ \A j \in DOMAIN w : text[i + j] = w[j]
           /\ i + Len(w) = Len(text) \/ text[i + Len(w) + 1] \in Whitespace

NoMarker(text) == MarkersFound(MarkerOffsets(text)) = {}

\* C14: no output of extract_main_content ends in a fragment of a word of
\* the input, and in the no-marker branch with fewer than 3 sentences the
\* trimmed text is returned whole when it has at most 400 characters and
\* otherwise cut at the last space within its first 400 characters and
\* suffixed with "...".
C14_NoMidWordCut ==
    call.op = "extract_main_content" =>
        /\ EndsAWordOf(LastWord(WithoutEllipsis(ExtractOutput)), ExtractText)
        /\ (/\ NoMarker(ExtractText)
            /\ Len(ReSplitSentences(Strip(ExtractText))) < MinSentences)
               => ExtractOutput = Truncate(Strip(ExtractText))

\* the sentences of a text: a sentence ends at '.', '!' or '?' followed by
\* whitespace
Sentences(text) == ReSplitSentences(Strip(text))

\* the first three sentences joined by single spaces
FirstThree(text) == JoinSpace(SubSeq(Sentences(text), 1, MinSentences))

ThreeSentenceCase ==
    /\ call.op = "extract_main_content"
    /\ ExtractText # << >>
    /\ NoMarker(ExtractText)
    /\ Len(Sentences(ExtractText)) >= MinSentences

\* C15 as stated: for a non-empty text without marker and with at least 3
\* sentences extract_main_content returns exactly the first 3 sentences
\* joined by single spaces; for the empty text it returns "".
C15_FirstThreeSentences ==
    /\ ThreeSentenceCase => ExtractOutput = FirstThree(ExtractText)
    /\ (call.op = "extract_main_content" /\ ExtractText = << >>)
           => ExtractOutput = << >>

\* C15 amended: as C15 when the three joined sentences have at most 400
\* characters; longer ones are cut at the last space within their first
\* 400 characters and suffixed with "...".
C15_FirstThreeSentencesTruncated ==
    /\ ThreeSentenceCase =>
           ExtractOutput
               = IF Len(FirstThree(ExtractText)) <= MaxCandidate
                 THEN FirstThree(ExtractText)
                 ELSE RSplitHead(Slice(FirstThree(ExtractText), 0,
                                       MaxCandidate)) \o Ellipsis
    /\ (call.op = "extract_main_content" /\ ExtractText = << >>)
           => ExtractOutput = << >>

\* three sentences of more than 400 characters together
C15_Witness ==
    /\ ThreeSentenceCase
    /\ Len(FirstThree(ExtractText)) > MaxCandidate
    /\ EndsWith(ExtractOutput, Ellipsis)

----------------------------------------------------------------------------
(* Claims about KnowledgeBase and its directory *)

\* C16: whatever has happened to base_path since the KnowledgeBase was
\* constructed, no KnowledgeBase operation raises: save_transcription
\* returns a str (a path or ""), list_transcriptions a list,
\* load_transcription a dict and delete_transcription a bool.
C16_NoExceptionEscapes ==
    /\ call.op = "list_transcriptions"
           => ~ret.raised /\ PyType(Result) = "list"
    /\ call.op = "load_transcription"
           => ~ret.raised /\ PyType(Result) = "dict"
    /\ call.op = "delete_transcription"
           => ~ret.raised /\ PyType(Result) = "bool"
    /\ (IsProcessQuery /\ Made("save_transcription"))
           => ~ret.raised /\ PyType(SaveCall.ret) = "str"

====
